---- MODULE Spec2Model ----
(***************************************************************************)
(* A model of the leaderboard service (LeaderboardService) together with   *)
(* the two collaborators it drives: the PostgreSQL table "users", reached  *)
(* through a pg connection pool, and the Redis sorted set                  *)
(* 'leaderboard:scores' with the hash 'users:metadata'.                    *)
(*                                                                         *)
(* The repository carries the service twice: the TypeScript source         *)
(* (src/services/leaderboardService.ts) and the compiled build             *)
(* (dist/services/leaderboardService.js).  The two differ in the           *)
(* statements they send to the store, so the variable build says which one *)
(* is running; every step that differs has one action per build.           *)
(*                                                                         *)
(* Every await of a handler is one step: a command runs at the server and  *)
(* the handler continues up to its next await.  Commands issued in the     *)
(* same tick (Promise.all over one Redis client, MULTI/EXEC) run as one    *)
(* step.                                                                   *)
(***************************************************************************)
EXTENDS Integers, Sequences, FiniteSets, TLC

\* ------------------------------------------------------------------ sizes
\* MAX_CACHE_SIZE is 10000 in the source and the context window of
\* getUserAndSurroundings is 5.  The model runs the same code with a cache of
\* SmallCache entries where eviction is exercised, with one of LargeCache
\* entries where the context windows are, and with a window of ContextWindow.
SmallCache == 2
LargeCache == 3
ContextWindow == 1
\* the last value the SERIAL column user_id hands out in a run
MaxId == 3
\* scores are 0..MaxScore
MaxScore == 1
\* calls that may be in flight together in the interleaved specification
MaxProcs == 2
\* connections the pool may open
MaxConn == 3
\* store statements and cache commands that may fail in a run
MaxFail == 1
\* calls a run of the interleaved specification may start
MaxCalls == 2

\* ------------------------------------------------------------------ strings
\* A string is the sequence of its characters.  The member names of the
\* sorted set and the field names of the hash are decimal strings, kept as
\* sequences of digits.
Null == -1

RECURSIVE toString(_)
toString(n) == IF n < 10 THEN <<n>> ELSE Append(toString(n \div 10), n % 10)

RECURSIVE parseInt(_)
parseInt(s) ==
  IF Len(s) = 1 THEN s[1]
  ELSE 10 * parseInt(SubSeq(s, 1, Len(s) - 1)) + s[Len(s)]

\* byte-wise comparison of two member names, as Redis orders equal scores
LexLess(a, b) ==
  \E i \in 1..Len(b) :
     /\ \A j \in 1..(i - 1) : j <= Len(a) /\ a[j] = b[j]
     /\ (i > Len(a) \/ a[i] < b[i])

IsSpace(c) == c = " "

RECURSIVE trim(_)
trim(s) ==
  IF s = <<>> THEN s
  ELSE IF IsSpace(s[1]) THEN trim(Tail(s))
  ELSE IF IsSpace(s[Len(s)]) THEN trim(SubSeq(s, 1, Len(s) - 1))
  ELSE s

Alpha == {"a", "b", "c", "d", "e", "f", "g", "h", "t", "p"}
SchemeChar == Alpha \cup {"+", "-", "."}
SpecialSchemes == {<<"h", "t", "t", "p">>}

\* new URL(s) succeeds: s is <scheme>:<rest>, and a special scheme needs a host
URLParses(s) ==
  \E i \in 1..Len(s) :
     /\ s[i] = ":"
     /\ \A j \in 1..(i - 1) : s[j] # ":"
     /\ i > 1
     /\ s[1] \in Alpha
     /\ \A j \in 1..(i - 1) : s[j] \in SchemeChar
     /\ LET scheme == SubSeq(s, 1, i - 1)
            rest == SubSeq(s, i + 1, Len(s))
            host == SelectSeq(rest, LAMBDA c : c # "/")
        IN scheme \in SpecialSchemes => host # <<>>

\* ------------------------------------------------------------------ inputs
Letters == <<"a", "b", "c", "d", "e", "f", "g", "h">>
\* the name the caller gives the k-th user
NameOf(k) == <<Letters[k]>>
Images == {<<"h", "t", "t", "p", ":", "/", "/", "a">>}
Scores == 0..MaxScore
Ids == 1..MaxId
Procs == 1..MaxProcs
Conns == 1..MaxConn

\* ------------------------------------------------------------------ state
VARIABLES
  build,    \* "ts": src/services/leaderboardService.ts, "js": the dist build
  MAX_CACHE_SIZE, \* the service's readonly field of that name
  slots,    \* how many calls may be in flight together
  budget,   \* calls that may still start in an interleaved run
  users,    \* committed rows of the table users
  seq,      \* next value of the SERIAL column user_id
  conns,    \* per connection: transaction status and uncommitted rows
  created,  \* connections the pool has opened so far (1..created)
  idle,     \* the pool's idle list, last released last
  zset,     \* the sorted set leaderboard:scores
  hash,     \* the hash users:metadata
  calls,    \* per call slot: the handler running there and its position
  fails,    \* store statements that have failed so far
  outages,  \* cache commands that have failed so far
  last,     \* the updateScore call that returned last, when no call started since
  seen      \* what has happened so far: "error" (a call raised), "sync" (a resync ran)

vars == <<build, MAX_CACHE_SIZE, slots, budget, last, users, seq, conns, created, idle,
          zset, hash, calls, fails, outages, seen>>

\* ------------------------------------------------------------------ Redis
\* The sorted set is a set of entries [value, score] with distinct values.
\* Redis keeps it ascending by score, equal scores ascending by member name.
ZLess(e, f) ==
  \/ e.score < f.score
  \/ e.score = f.score /\ LexLess(e.value, f.value)

\* the entries in ascending rank order, rank 0 first
ZAsc(z) ==
  [i \in 1..Cardinality(z) |->
     CHOOSE e \in z : Cardinality({f \in z : ZLess(f, e)}) = i - 1]

\* the 0-based indices a start/stop pair of a range command selects among
\* len elements: negative indices count from the end, the pair is clamped
RangeIdx(len, start, stop) ==
  LET s0 == IF start < 0 THEN start + len ELSE start
      e0 == IF stop < 0 THEN stop + len ELSE stop
      s == IF s0 < 0 THEN 0 ELSE s0
      e == IF e0 >= len THEN len - 1 ELSE e0
  IN IF s > e \/ s >= len THEN {} ELSE s..e

\* ZINCRBY key score member: the score is added to the member's score
zIncrBy(z, score, value) ==
  {e \in z : e.value # value}
    \cup {[value |-> value,
           score |-> score + (IF \E e \in z : e.value = value
                              THEN (CHOOSE e \in z : e.value = value).score
                              ELSE 0)]}

\* ZADD key score member
zAdd(z, score, value) ==
  {e \in z : e.value # value} \cup {[value |-> value, score |-> score]}

\* ZREMRANGEBYRANK key start stop: ranks count from the lowest score
zRemRangeByRank(z, start, stop) ==
  LET asc == ZAsc(z)
  IN z \ {asc[i + 1] : i \in RangeIdx(Cardinality(z), start, stop)}

\* ZREVRANGE key start stop: members from the highest score down
zRevRange(z, start, stop) ==
  LET len == Cardinality(z)
      asc == ZAsc(z)
      idx == RangeIdx(len, start, stop)
  IN [k \in 1..Cardinality(idx) |->
        asc[len - ((CHOOSE i \in idx : \A j \in idx : i <= j) + k - 1)].value]

\* ZSCORE key member
zScore(z, value) ==
  IF \E e \in z : e.value = value
  THEN (CHOOSE e \in z : e.value = value).score
  ELSE Null

\* ZREVRANK key member
zRevRank(z, value) ==
  IF \E e \in z : e.value = value
  THEN Cardinality({f \in z : ZLess(CHOOSE e \in z : e.value = value, f)})
  ELSE Null

\* ZMSCORE key member [member ...]
zmScore(z, values) == [i \in 1..Len(values) |-> zScore(z, values[i])]

\* ZCARD key
zCard(z) == Cardinality(z)

\* The hash is a set of pairs [field, value] with distinct fields.
\* HSET key field value
hSet(h, fld, value) ==
  {e \in h : e.field # fld} \cup {[field |-> fld, value |-> value]}

NullString == <<"null">>

\* HGET key field
hGet(h, fld) ==
  IF \E e \in h : e.field = fld
  THEN (CHOOSE e \in h : e.field = fld).value
  ELSE NullString

\* HMGET key field [field ...]
hmGet(h, fields) == [i \in 1..Len(fields) |-> hGet(h, fields[i])]

\* JSON.stringify({ name, image }) and JSON.parse of such a text
JSONstringify(name, image) == <<"{", "name", name, "image", image, "}">>
JSONparse(text) == [name |-> text[3], image |-> text[5]]

NullData == [null |-> TRUE]

\* getUserDataBatch: HMGET, each reply parsed, a missing one null
getUserDataBatch(h, userIds) ==
  LET results == hmGet(h, userIds)
  IN [i \in 1..Len(results) |->
        IF results[i] # NullString THEN JSONparse(results[i]) ELSE NullData]

\* ------------------------------------------------------------------ store
\* A row of the table users.  A connection sees the committed rows and, inside
\* its open transaction, its own uncommitted ones (READ COMMITTED).
Row(id, name, image, score) ==
  [user_id |-> id, user_name |-> name, image_url |-> image, total_score |-> score]

Upsert(t, r) == {q \in t : q.user_id # r.user_id} \cup {r}

View(c) ==
  IF conns[c].txn = "open"
  THEN conns[c].pend \cup
       {r \in users : \A q \in conns[c].pend : q.user_id # r.user_id}
  ELSE users

\* uncommitted rows of the transactions open on other connections
OtherPending(c) == UNION {conns[d].pend : d \in Conns \ {c}}

\* a failed statement leaves an open transaction aborted
Abort(c) == [conns EXCEPT ![c].txn = IF @ = "open" THEN "aborted" ELSE @]

\* BEGIN: opens a transaction; inside one it only warns
Begin(c) ==
  IF conns[c].txn = "aborted"
  THEN [ok |-> FALSE, conns |-> conns]
  ELSE [ok |-> TRUE, conns |-> [conns EXCEPT ![c].txn = "open"]]

\* INSERT INTO users (user_name, total_score, image_url) ... RETURNING user_id
\* on connection c; user_name is UNIQUE, user_id is taken from the sequence
\* before the row is checked
Insert(c, name, score, image) ==
  LET row == Row(seq, name, image, score)
  IN IF conns[c].txn = "aborted"
     THEN [ok |-> FALSE, users |-> users, conns |-> conns, seq |-> seq]
     ELSE IF \E q \in View(c) : q.user_name = name
     THEN [ok |-> FALSE, users |-> users, conns |-> Abort(c), seq |-> seq + 1]
     ELSE IF conns[c].txn = "open"
     THEN [ok |-> TRUE, users |-> users, seq |-> seq + 1,
           conns |-> [conns EXCEPT ![c].pend = @ \cup {row}]]
     ELSE [ok |-> TRUE, users |-> users \cup {row}, conns |-> conns, seq |-> seq + 1]

\* the insert waits while another open transaction holds the same name
InsertWaits(c, name) == \E q \in OtherPending(c) : q.user_name = name

\* an UPDATE without its WHERE clause: every row gets the score
UpdateEveryRow(c, id, score) ==
  LET hit == View(c)
      new == {[r EXCEPT !.total_score = score] : r \in hit}
  IN IF conns[c].txn = "aborted"
     THEN [ok |-> FALSE, rowCount |-> 0, users |-> users, conns |-> conns]
     ELSE IF hit = {}
     THEN [ok |-> TRUE, rowCount |-> 0, users |-> users, conns |-> conns]
     ELSE IF conns[c].txn = "open"
     THEN [ok |-> TRUE, rowCount |-> Cardinality(hit), users |-> users,
           conns |-> [conns EXCEPT ![c].pend = new]]
     ELSE [ok |-> TRUE, rowCount |-> Cardinality(hit), conns |-> conns,
           users |-> new]

\* UPDATE users SET total_score = $1 WHERE user_id = $2 on connection c
Update(c, id, score) ==
  LET hit == {r \in View(c) : r.user_id = id}
      new == {[r EXCEPT !.total_score = score] : r \in hit}
  IN IF conns[c].txn = "aborted"
     THEN [ok |-> FALSE, rowCount |-> 0, users |-> users, conns |-> conns]
     ELSE IF hit = {}
     THEN [ok |-> TRUE, rowCount |-> 0, users |-> users, conns |-> conns]
     ELSE IF conns[c].txn = "open"
     THEN [ok |-> TRUE, rowCount |-> 1, users |-> users,
           conns |-> [conns EXCEPT ![c].pend =
                         {q \in @ : q.user_id # id} \cup new]]
     ELSE [ok |-> TRUE, rowCount |-> 1, conns |-> conns,
           users |-> {q \in users : q.user_id # id} \cup new]

\* an update that takes no row lock
UpdateNeverWaits(c, id) == FALSE

\* the update waits while another open transaction holds the row's lock
UpdateWaits(c, id) ==
  /\ \E r \in users : r.user_id = id
  /\ \E q \in OtherPending(c) : q.user_id = id

\* COMMIT: the uncommitted rows become committed; an aborted transaction is
\* rolled back instead; outside a transaction it only warns
Commit(c) ==
  IF conns[c].txn = "open"
  THEN [users |-> conns[c].pend \cup
                  {r \in users : \A q \in conns[c].pend : q.user_id # r.user_id},
        conns |-> [conns EXCEPT ![c] = [txn |-> "none", pend |-> {}]]]
  ELSE [users |-> users,
        conns |-> [conns EXCEPT ![c] = [txn |-> "none", pend |-> {}]]]

\* ROLLBACK: the uncommitted rows are dropped
Rollback(c) == [conns EXCEPT ![c] = [txn |-> "none", pend |-> {}]]

\* the rows in the order ORDER BY total_score DESC, user_id ASC
RowBefore(r, q) ==
  \/ r.total_score > q.total_score
  \/ r.total_score = q.total_score /\ r.user_id < q.user_id

OrderByScoreDescIdAsc(t) ==
  [i \in 1..Cardinality(t) |->
     CHOOSE r \in t : Cardinality({q \in t : RowBefore(q, r)}) = i - 1]

\* ------------------------------------------------------------------ pool
\* pg's pool hands out the idle connection released last, and opens a new one
\* when none is idle
CanAcquire == idle # <<>> \/ created < MaxConn
Acquired == IF idle # <<>> THEN idle[Len(idle)] ELSE created + 1
IdleAfterAcquire == IF idle # <<>> THEN SubSeq(idle, 1, Len(idle) - 1) ELSE idle
CreatedAfterAcquire == IF idle # <<>> THEN created ELSE created + 1
\* pool.query: acquire, run the statement, release
IdleAfterQuery == IF idle # <<>> THEN idle ELSE <<created + 1>>
\* the rows a query through the pool reads now
StoreView == IF CanAcquire THEN View(Acquired) ELSE users

\* ------------------------------------------------------------------ validation
\* A numeric argument as the caller passes it: a value with its typeof.
\* Num(n) is the integer n, Fraction(n) a number strictly between n and n + 1,
\* Undefined a missing argument.
Num(n) == [type |-> "number", value |-> n, integer |-> TRUE]
Fraction(n) == [type |-> "number", value |-> n, integer |-> FALSE]
Undefined == [type |-> "undefined", value |-> 0, integer |-> FALSE]

\* a validator that only tests typeof score
validateScoreTypeOnly(score) == score # Undefined /\ score.type = "number"

\* each is TRUE when the static validator returns without throwing
validateScore(score) ==
  /\ score # Undefined
  /\ score.type = "number"
  /\ score.integer
  /\ score.value >= 0
validateUserId(userId) ==
  /\ userId # Undefined
  /\ userId.type = "number"
  /\ userId.integer /\ userId.value > 0
validateImageUrl(imageUrl) == URLParses(imageUrl)
validateUsername(username) == Len(trim(username)) # 0

\* ------------------------------------------------------------------ calls
NoPre ==
  [users |-> {}, store |-> {}, zset |-> {}, hash |-> {}, fails |-> 0,
   outages |-> 0]
\* the arguments as the caller passed them
NoArgs ==
  [username |-> <<>>, score |-> Undefined, imageUrl |-> <<>>,
   user_id |-> Undefined]
\* the user of a context answer before it is computed
NoUser ==
  [position |-> 0, user_id |-> 0, user_name |-> <<>>, image_url |-> <<>>,
   total_score |-> 0]
\* issued: the Redis commands the call has sent; repeat: the call repeats the
\* updateScore that returned just before it
NoCall ==
  [op |-> "none", pc |-> "idle", args |-> NoArgs, username |-> <<>>, score |-> 0,
   imageUrl |-> <<>>, user_id |-> 0, n |-> 0, client |-> 0,
   userIds |-> <<>>, rows |-> <<>>, result |-> <<>>, outcome |-> "none",
   issued |-> {}, repeat |-> FALSE, rank |-> Null, total |-> 0,
   user |-> NoUser, belowIds |-> <<>>, above |-> <<>>, below |-> <<>>,
   pre |-> NoPre]

\* what a call remembers of the state it started in
Snapshot ==
  [users |-> users, store |-> StoreView, zset |-> zset, hash |-> hash,
   fails |-> fails, outages |-> outages]

NoLast == [user_id |-> 0, score |-> 0]

At(p, op, pc) == calls[p].op = op /\ calls[p].pc = pc

\* a request arrives at a free slot; only an interleaved run counts its calls
CanStart(p) ==
  /\ p <= slots
  /\ calls[p] = NoCall
  /\ slots = 1 \/ budget > 0
  /\ budget' = IF slots = 1 THEN budget ELSE budget - 1
  /\ last' = NoLast

\* a connection put back twice
ReleaseTwice(c) == Append(Append(idle, c), c)

\* the handler's finally block: client.release()
Release(c) == Append(idle, c)

\* ------------------------------------------------------------------ createUser
\* createUser(username, score, imageUrl): the three validators
createUser(p, username, score, imageUrl) ==
  /\ CanStart(p)
  /\ seq <= MaxId
  /\ LET valid == /\ validateUsername(username)
                  /\ validateScore(score)
                  /\ validateImageUrl(imageUrl)
         call == [NoCall EXCEPT !.op = "createUser", !.username = username,
                                !.args = [NoArgs EXCEPT !.username = username,
                                            !.score = score, !.imageUrl = imageUrl],
                                !.score = score.value, !.imageUrl = imageUrl,
                                !.pre = Snapshot]
     IN /\ calls' = [calls EXCEPT ![p] =
                       IF valid THEN [call EXCEPT !.pc = "connect"]
                       ELSE [call EXCEPT !.pc = "done",
                                         !.outcome = "ValidationError"]]
        /\ seen' = IF valid THEN seen ELSE seen \cup {"error"}
  /\ UNCHANGED <<build, MAX_CACHE_SIZE, slots, users, seq, conns, created, idle, zset, hash, fails, outages>>

\* const client = await this.db.connect()
createUserConnect(p) ==
  /\ At(p, "createUser", "connect")
  /\ CanAcquire
  /\ calls' = [calls EXCEPT ![p].client = Acquired, ![p].pc = "begin"]
  /\ idle' = IdleAfterAcquire
  /\ created' = CreatedAfterAcquire
  /\ UNCHANGED <<build, MAX_CACHE_SIZE, slots, budget, last, users, seq, conns, zset, hash, fails, outages, seen>>

\* await client.query('BEGIN')
createUserBegin(p) ==
  /\ At(p, "createUser", "begin")
  /\ LET r == Begin(calls[p].client)
     IN /\ conns' = r.conns
        /\ calls' = [calls EXCEPT
                       ![p].pc = IF r.ok THEN "insert" ELSE "rollback",
                       ![p].outcome = IF r.ok THEN @ ELSE "StoreError"]
  /\ UNCHANGED <<build, MAX_CACHE_SIZE, slots, budget, last, users, seq, created, idle, zset, hash, fails, outages, seen>>

\* dist build: the INSERT runs on the client that ran BEGIN, and the id is
\* read from the returned column user_id
createUserInsertJs(p) ==
  /\ build = "js"
  /\ At(p, "createUser", "insert")
  /\ ~InsertWaits(calls[p].client, calls[p].username)
  /\ LET r == Insert(calls[p].client, calls[p].username, calls[p].score,
                     calls[p].imageUrl)
     IN /\ users' = r.users
        /\ conns' = r.conns
        /\ seq' = r.seq
        /\ calls' = [calls EXCEPT
                       ![p].pc = IF r.ok THEN "cache" ELSE "rollback",
                       ![p].user_id = IF r.ok THEN seq ELSE @,
                       ![p].outcome = IF r.ok THEN @ ELSE "StoreError"]
  /\ UNCHANGED <<build, MAX_CACHE_SIZE, slots, budget, last, created, idle, zset, hash, fails, outages, seen>>

\* TypeScript source: the INSERT goes through pool.query, on another
\* connection than the one that ran BEGIN, and the id is read from
\* result.rows[0].id, a column the statement does not return: user_id is
\* undefined and user_id.toString() throws before any cache command is issued
createUserInsertTs(p) ==
  /\ build = "ts"
  /\ At(p, "createUser", "insert")
  /\ CanAcquire
  /\ ~InsertWaits(Acquired, calls[p].username)
  /\ LET r == Insert(Acquired, calls[p].username, calls[p].score,
                     calls[p].imageUrl)
     IN /\ users' = r.users
        /\ conns' = r.conns
        /\ seq' = r.seq
        /\ calls' = [calls EXCEPT
                       ![p].pc = "rollback",
                       ![p].outcome = IF r.ok THEN "TypeError" ELSE "StoreError"]
  /\ idle' = IdleAfterQuery
  /\ created' = CreatedAfterAcquire
  /\ UNCHANGED <<build, MAX_CACHE_SIZE, slots, budget, last, zset, hash, fails, outages, seen>>

\* await Promise.all([zAdd(score, user_id.toString()), hSet(user_id.toString(), JSON)])
createUserCache(p) ==
  /\ At(p, "createUser", "cache")
  /\ zset' = zAdd(zset, calls[p].score, toString(calls[p].user_id))
  /\ hash' = hSet(hash, toString(calls[p].user_id),
                  JSONstringify(calls[p].username, calls[p].imageUrl))
  /\ calls' = [calls EXCEPT ![p].pc = "evict",
                            ![p].issued = @ \cup {"zAdd", "hSet"}]
  /\ UNCHANGED <<build, MAX_CACHE_SIZE, slots, budget, last, users, seq, conns, created, idle, fails, outages, seen>>

\* await zRemRangeByRank(MAX_CACHE_SIZE, -1); the handler then returns through
\* its finally block: no COMMIT is sent
createUserEvict(p) ==
  /\ At(p, "createUser", "evict")
  /\ zset' = zRemRangeByRank(zset, MAX_CACHE_SIZE, -1)
  /\ idle' = Release(calls[p].client)
  /\ calls' = [calls EXCEPT ![p].pc = "done", ![p].outcome = "ok",
                            ![p].issued = @ \cup {"zRemRangeByRank"}]
  /\ UNCHANGED <<build, MAX_CACHE_SIZE, slots, budget, last, users, seq, conns, created, hash, fails, outages, seen>>

\* the store rejects BEGIN or the INSERT (unreachable, constraint, timeout)
createUserStoreFails(p) ==
  /\ calls[p].op = "createUser"
  /\ calls[p].pc \in {"begin", "insert"}
  /\ fails + outages < MaxFail
  /\ fails' = fails + 1
  /\ conns' = IF build = "js" \/ calls[p].pc = "begin"
              THEN Abort(calls[p].client) ELSE conns
  /\ calls' = [calls EXCEPT ![p].pc = "rollback", ![p].outcome = "StoreError"]
  /\ UNCHANGED <<build, MAX_CACHE_SIZE, slots, budget, last, users, seq, created, idle, zset, hash, outages, seen>>

\* Redis rejects a command of the Promise.all or the zRemRangeByRank.  Of the
\* two commands of the Promise.all at most one has taken effect when the
\* other is rejected.
createUserCacheFails(p) ==
  /\ calls[p].op = "createUser"
  /\ calls[p].pc \in {"cache", "evict"}
  /\ fails + outages < MaxFail
  /\ outages' = outages + 1
  /\ IF calls[p].pc = "cache"
     THEN \/ zset' = zset /\ hash' = hash
          \/ /\ zset' = zAdd(zset, calls[p].score, toString(calls[p].user_id))
             /\ hash' = hash
          \/ /\ zset' = zset
             /\ hash' = hSet(hash, toString(calls[p].user_id),
                             JSONstringify(calls[p].username, calls[p].imageUrl))
     ELSE zset' = zset /\ hash' = hash
  /\ calls' = [calls EXCEPT
                 ![p].pc = "rollback", ![p].outcome = "CacheError",
                 ![p].issued = @ \cup (IF calls[p].pc = "cache" THEN {"zAdd", "hSet"}
                                       ELSE {"zRemRangeByRank"})]
  /\ UNCHANGED <<build, MAX_CACHE_SIZE, slots, budget, last, users, seq, conns, created, idle, fails, seen>>

\* catch: await client.query('ROLLBACK'); throw; finally: client.release()
createUserRollback(p) ==
  /\ At(p, "createUser", "rollback")
  /\ conns' = Rollback(calls[p].client)
  /\ idle' = Release(calls[p].client)
  /\ calls' = [calls EXCEPT ![p].pc = "done"]
  /\ seen' = seen \cup {"error"}
  /\ UNCHANGED <<build, MAX_CACHE_SIZE, slots, budget, last, users, seq, created, zset, hash, fails, outages>>

\* ------------------------------------------------------------------ updateScore
\* updateScore(user_id, newScore): the two validators (the test newScore < 0
\* that follows them repeats validateScore)
updateScore(p, user_id, newScore) ==
  /\ CanStart(p)
  /\ LET valid == validateUserId(user_id) /\ validateScore(newScore)
         call == [NoCall EXCEPT !.op = "updateScore", !.user_id = user_id.value,
                                !.args = [NoArgs EXCEPT !.user_id = user_id,
                                            !.score = newScore],
                                !.score = newScore.value, !.pre = Snapshot,
                                !.repeat = /\ valid
                                           /\ last = [user_id |-> user_id.value,
                                                      score |-> newScore.value]]
     IN /\ calls' = [calls EXCEPT ![p] =
                       IF valid THEN [call EXCEPT !.pc = "connect"]
                       ELSE [call EXCEPT !.pc = "done",
                                         !.outcome = "ValidationError"]]
        /\ seen' = IF valid THEN seen ELSE seen \cup {"error"}
  /\ UNCHANGED <<build, MAX_CACHE_SIZE, slots, users, seq, conns, created, idle, zset, hash, fails, outages>>

\* const client = await this.db.connect()
updateScoreConnect(p) ==
  /\ At(p, "updateScore", "connect")
  /\ CanAcquire
  /\ calls' = [calls EXCEPT ![p].client = Acquired, ![p].pc = "begin"]
  /\ idle' = IdleAfterAcquire
  /\ created' = CreatedAfterAcquire
  /\ UNCHANGED <<build, MAX_CACHE_SIZE, slots, budget, last, users, seq, conns, zset, hash, fails, outages, seen>>

\* await client.query('BEGIN')
updateScoreBegin(p) ==
  /\ At(p, "updateScore", "begin")
  /\ LET r == Begin(calls[p].client)
     IN /\ conns' = r.conns
        /\ calls' = [calls EXCEPT
                       ![p].pc = IF r.ok THEN "update" ELSE "rollback",
                       ![p].outcome = IF r.ok THEN @ ELSE "StoreError"]
  /\ UNCHANGED <<build, MAX_CACHE_SIZE, slots, budget, last, users, seq, created, idle, zset, hash, fails, outages, seen>>

\* dist build: UPDATE ... WHERE user_id = $2, not found when rowCount is 0
updateScoreUpdateJs(p) ==
  /\ build = "js"
  /\ At(p, "updateScore", "update")
  /\ ~UpdateWaits(calls[p].client, calls[p].user_id)
  /\ LET r == Update(calls[p].client, calls[p].user_id, calls[p].score)
     IN /\ users' = r.users
        /\ conns' = r.conns
        /\ calls' = [calls EXCEPT
                       ![p].pc = IF r.ok /\ r.rowCount # 0 THEN "cache"
                                 ELSE "rollback",
                       ![p].outcome = IF ~r.ok THEN "StoreError"
                                      ELSE IF r.rowCount = 0 THEN "NotFound"
                                      ELSE @]
  /\ UNCHANGED <<build, MAX_CACHE_SIZE, slots, budget, last, seq, created, idle, zset, hash, fails, outages, seen>>

\* TypeScript source: UPDATE ... WHERE id = $2 names a column the table users
\* does not have, so the store rejects the statement on every call
updateScoreUpdateTs(p) ==
  /\ build = "ts"
  /\ At(p, "updateScore", "update")
  /\ conns' = Abort(calls[p].client)
  /\ calls' = [calls EXCEPT ![p].pc = "rollback", ![p].outcome = "StoreError"]
  /\ UNCHANGED <<build, MAX_CACHE_SIZE, slots, budget, last, users, seq, created, idle, zset, hash, fails, outages, seen>>

\* await zAdd(newScore, user_id.toString())
updateScoreCache(p) ==
  /\ At(p, "updateScore", "cache")
  /\ zset' = zAdd(zset, calls[p].score, toString(calls[p].user_id))
  /\ calls' = [calls EXCEPT ![p].pc = "evict", ![p].issued = @ \cup {"zAdd"}]
  /\ UNCHANGED <<build, MAX_CACHE_SIZE, slots, budget, last, users, seq, conns, created, idle, hash, fails, outages, seen>>

\* await zRemRangeByRank(MAX_CACHE_SIZE, -1)
updateScoreEvict(p) ==
  /\ At(p, "updateScore", "evict")
  /\ zset' = zRemRangeByRank(zset, MAX_CACHE_SIZE, -1)
  /\ calls' = [calls EXCEPT ![p].pc = "commit",
                            ![p].issued = @ \cup {"zRemRangeByRank"}]
  /\ UNCHANGED <<build, MAX_CACHE_SIZE, slots, budget, last, users, seq, conns, created, idle, hash, fails, outages, seen>>

\* await client.query('COMMIT'); finally: client.release()
updateScoreCommit(p) ==
  /\ At(p, "updateScore", "commit")
  /\ LET r == Commit(calls[p].client)
     IN users' = r.users /\ conns' = r.conns
  /\ idle' = Release(calls[p].client)
  /\ calls' = [calls EXCEPT ![p].pc = "done", ![p].outcome = "ok"]
  /\ UNCHANGED <<build, MAX_CACHE_SIZE, slots, budget, last, seq, created, zset, hash, fails, outages, seen>>

\* the store rejects BEGIN, the UPDATE or COMMIT; a transaction whose COMMIT
\* fails is not committed
updateScoreStoreFails(p) ==
  /\ calls[p].op = "updateScore"
  /\ calls[p].pc \in {"begin", "update", "commit"}
  /\ fails + outages < MaxFail
  /\ fails' = fails + 1
  /\ conns' = Abort(calls[p].client)
  /\ calls' = [calls EXCEPT ![p].pc = "rollback", ![p].outcome = "StoreError"]
  /\ UNCHANGED <<build, MAX_CACHE_SIZE, slots, budget, last, users, seq, created, idle, zset, hash, outages, seen>>

\* Redis rejects the zAdd or the zRemRangeByRank
updateScoreCacheFails(p) ==
  /\ calls[p].op = "updateScore"
  /\ calls[p].pc \in {"cache", "evict"}
  /\ fails + outages < MaxFail
  /\ outages' = outages + 1
  /\ calls' = [calls EXCEPT
                 ![p].pc = "rollback", ![p].outcome = "CacheError",
                 ![p].issued = @ \cup (IF calls[p].pc = "cache" THEN {"zAdd"}
                                       ELSE {"zRemRangeByRank"})]
  /\ UNCHANGED <<build, MAX_CACHE_SIZE, slots, budget, last, users, seq, conns, created, idle, zset, hash, fails, seen>>

\* catch: await client.query('ROLLBACK'); throw; finally: client.release().
\* The TypeScript source throws the constructor Error, whatever was caught.
updateScoreRollback(p) ==
  /\ At(p, "updateScore", "rollback")
  /\ conns' = Rollback(calls[p].client)
  /\ idle' = Release(calls[p].client)
  /\ calls' = [calls EXCEPT ![p].pc = "done",
                            ![p].outcome = IF build = "ts" THEN "Error" ELSE @]
  /\ seen' = seen \cup {"error"}
  /\ UNCHANGED <<build, MAX_CACHE_SIZE, slots, budget, last, users, seq, created, zset, hash, fails, outages>>

\* ------------------------------------------------------------------ syncCacheFromDB
\* a resync that deletes the sorted set and keeps the hash
syncCacheFromDBKeepHash(p) ==
  /\ CanStart(p)
  /\ zset' = {}
  /\ hash' = hash
  /\ calls' = [calls EXCEPT ![p] =
                 [NoCall EXCEPT !.op = "syncCacheFromDB", !.pc = "query",
                                !.issued = {"del"}, !.pre = Snapshot]]
  /\ seen' = seen \cup {"sync"}
  /\ UNCHANGED <<build, MAX_CACHE_SIZE, slots, users, seq, conns, created, idle, fails, outages>>

\* await Promise.all([del(REDIS_SORTED_SET), del(REDIS_HASH)])
syncCacheFromDB(p) ==
  /\ CanStart(p)
  /\ zset' = {}
  /\ hash' = {}
  /\ calls' = [calls EXCEPT ![p] =
                 [NoCall EXCEPT !.op = "syncCacheFromDB", !.pc = "query",
                                !.issued = {"del"}, !.pre = Snapshot]]
  /\ seen' = seen \cup {"sync"}
  /\ UNCHANGED <<build, MAX_CACHE_SIZE, slots, users, seq, conns, created, idle, fails, outages>>

\* SELECT ... ORDER BY total_score DESC, user_id ASC LIMIT MAX_CACHE_SIZE,
\* through the pool; an empty result ends the resync
syncCacheFromDBQuery(p) ==
  /\ At(p, "syncCacheFromDB", "query")
  /\ CanAcquire
  /\ LET all == OrderByScoreDescIdAsc(View(Acquired))
         rows == SubSeq(all, 1, IF Len(all) < MAX_CACHE_SIZE THEN Len(all)
                                ELSE MAX_CACHE_SIZE)
     IN calls' = [calls EXCEPT
                    ![p].rows = rows,
                    ![p].pc = IF Len(rows) = 0 THEN "done" ELSE "exec",
                    ![p].outcome = IF Len(rows) = 0 THEN "ok" ELSE @]
  /\ idle' = IdleAfterQuery
  /\ created' = CreatedAfterAcquire
  /\ UNCHANGED <<build, MAX_CACHE_SIZE, slots, budget, last, users, seq, conns, zset, hash, fails, outages, seen>>

RECURSIVE LoadRows(_, _, _)
\* the queued zAdd and hSet of every row, in the order queued
LoadRows(rows, z, h) ==
  IF rows = <<>> THEN [zset |-> z, hash |-> h]
  ELSE LET user == Head(rows)
       IN LoadRows(Tail(rows),
                   zAdd(z, user.total_score, toString(user.user_id)),
                   hSet(h, toString(user.user_id),
                        JSONstringify(user.user_name, user.image_url)))

\* await multi.exec()
syncCacheFromDBExec(p) ==
  /\ At(p, "syncCacheFromDB", "exec")
  /\ LET r == LoadRows(calls[p].rows, zset, hash)
     IN zset' = r.zset /\ hash' = r.hash
  /\ calls' = [calls EXCEPT ![p].pc = "done", ![p].outcome = "ok",
                            ![p].issued = @ \cup {"zAdd", "hSet"}]
  /\ UNCHANGED <<build, MAX_CACHE_SIZE, slots, budget, last, users, seq, conns, created, idle, fails, outages, seen>>

\* ------------------------------------------------------------------ getTopN
Unknown == <<"U", "n", "k", "n", "o", "w", "n">>

\* a score passed on as Redis replied it
ScoreAsReplied(score, default) == score

\* userData[index]?.name || 'Unknown' and userData[index]?.image || ''
NameOr(data, default) ==
  IF data = NullData THEN default
  ELSE IF data.name = <<>> THEN default ELSE data.name
ImageOr(data, default) ==
  IF data = NullData THEN default
  ELSE IF data.image = <<>> THEN default ELSE data.image
\* scores[index] || 0
ScoreOr(score, default) == IF score = Null \/ score = 0 THEN default ELSE score

UserWithRank(position, id, name, image, score) ==
  [position |-> position, user_id |-> id, user_name |-> name,
   image_url |-> image, total_score |-> score]

\* a store query that stops at MAX_CACHE_SIZE rows whatever n is
getTopUsersFromDBCapped(c, n) ==
  LET t == View(c)
      all == OrderByScoreDescIdAsc(t)
      k == IF n < MAX_CACHE_SIZE THEN n ELSE MAX_CACHE_SIZE
      rows == SubSeq(all, 1, IF Len(all) < k THEN Len(all) ELSE k)
  IN [i \in 1..Len(rows) |->
        UserWithRank(i, rows[i].user_id, rows[i].user_name, rows[i].image_url,
                     rows[i].total_score)]

\* a store query whose RANK() orders by total_score alone
getTopUsersFromDBByScore(c, n) ==
  LET t == View(c)
      all == OrderByScoreDescIdAsc(t)
      rows == SubSeq(all, 1, IF Len(all) < n THEN Len(all) ELSE n)
  IN [i \in 1..Len(rows) |->
        UserWithRank(1 + Cardinality({q \in t : q.total_score > rows[i].total_score}),
                     rows[i].user_id, rows[i].user_name, rows[i].image_url,
                     rows[i].total_score)]

\* getTopUsersFromDB(n): RANK() OVER (ORDER BY total_score DESC, user_id ASC),
\* ORDER BY total_score DESC, user_id ASC LIMIT n, read on connection c
getTopUsersFromDB(c, n) ==
  LET t == View(c)
      all == OrderByScoreDescIdAsc(t)
      rows == SubSeq(all, 1, IF Len(all) < n THEN Len(all) ELSE n)
  IN [i \in 1..Len(rows) |->
        UserWithRank(1 + Cardinality({q \in t : RowBefore(q, rows[i])}),
                     rows[i].user_id, rows[i].user_name,
                     IF rows[i].image_url = <<>> THEN <<>> ELSE rows[i].image_url,
                     rows[i].total_score)]

\* a map that numbers every list from 1
HydrateFromOne(userIds, userData, scores, first) ==
  [i \in 1..Len(userIds) |->
     UserWithRank(i, parseInt(userIds[i]),
                  IF userData[i] = NullData \/ userData[i].name = <<>>
                  THEN <<"U", "n", "k", "n", "o", "w", "n">> ELSE userData[i].name,
                  IF userData[i] = NullData THEN <<>> ELSE userData[i].image,
                  IF scores[i] = Null THEN 0 ELSE scores[i])]

\* the map at the end of getTopN and getContextUsers
Hydrate(userIds, userData, scores, first) ==
  [i \in 1..Len(userIds) |->
     UserWithRank(first + (i - 1) + 1, parseInt(userIds[i]),
                  NameOr(userData[i], Unknown), ImageOr(userData[i], <<>>),
                  ScoreOr(scores[i], 0))]

TopNInputs == 0..(MAX_CACHE_SIZE + 2)

\* one call of createUser for each way validation can fail
InvalidCreateUserInputs ==
  {<<<<>>, Num(0), i>> : i \in Images}
    \cup {<<<<" ">>, Num(0), i>> : i \in Images}
    \cup {<<NameOf(seq), v, i>> : v \in {Num(-1), Fraction(0), Undefined}, i \in Images}
    \cup {<<NameOf(seq), Num(0), <<>>>>, <<NameOf(seq), Num(0), <<"a">>>>}

\* the arguments of createUser: a new name or the first user's name again and
\* every score; where calls run one at a time also the invalid arguments (a
\* refused call takes one step, so interleaving it adds nothing)
CreateUserInputs ==
  ({NameOf(seq), NameOf(1)} \X {Num(s) : s \in Scores} \X Images)
    \cup (IF slots = 1 THEN InvalidCreateUserInputs ELSE {})

\* one call of updateScore for each way validation can fail
InvalidUpdateScoreInputs ==
  {<<v, Num(0)>> : v \in {Num(0), Num(-1), Fraction(1), Undefined}}
    \cup {<<Num(1), v>> : v \in {Num(-1), Fraction(0), Undefined}}

\* the arguments of updateScore: every id and score, and the invalid
\* arguments where calls run one at a time
UpdateScoreInputs ==
  ({Num(i) : i \in Ids} \X {Num(s) : s \in Scores})
    \cup (IF slots = 1 THEN InvalidUpdateScoreInputs ELSE {})

\* getTopN(n): above MAX_CACHE_SIZE the store answers; otherwise
\* zRevRange(0, n - 1), and an empty reply ends the call with []
getTopN(p, n) ==
  /\ CanStart(p)
  /\ IF n > MAX_CACHE_SIZE
     THEN /\ CanAcquire
          /\ calls' = [calls EXCEPT ![p] =
                         [NoCall EXCEPT !.op = "getTopN", !.n = n, !.pc = "done",
                                        !.outcome = "ok", !.pre = Snapshot,
                                        !.result = getTopUsersFromDB(Acquired, n)]]
          /\ idle' = IdleAfterQuery
          /\ created' = CreatedAfterAcquire
     ELSE /\ LET userIds == zRevRange(zset, 0, n - 1)
             IN calls' = [calls EXCEPT ![p] =
                            [NoCall EXCEPT !.op = "getTopN", !.n = n,
                               !.pre = Snapshot, !.userIds = userIds,
                               !.issued = {"zRevRange"},
                               !.pc = IF Len(userIds) = 0 THEN "done" ELSE "hydrate",
                               !.outcome = IF Len(userIds) = 0 THEN "ok" ELSE @]]
          /\ UNCHANGED <<idle, created>>
  /\ UNCHANGED <<build, MAX_CACHE_SIZE, slots, users, seq, conns, zset, hash, fails, outages, seen>>

\* await Promise.all([getUserDataBatch(userIds), zmScore(userIds)]) and the map
getTopNHydrate(p) ==
  /\ At(p, "getTopN", "hydrate")
  /\ calls' = [calls EXCEPT
                 ![p].pc = "done", ![p].outcome = "ok",
                 ![p].issued = @ \cup {"hmGet", "zmScore"},
                 ![p].result = Hydrate(calls[p].userIds,
                                       getUserDataBatch(hash, calls[p].userIds),
                                       zmScore(zset, calls[p].userIds), 0)]
  /\ UNCHANGED <<build, MAX_CACHE_SIZE, slots, budget, last, users, seq, conns, created, idle, zset, hash, fails, outages, seen>>

\* ------------------------------------------------------------------ getUserAndSurroundings
Max(a, b) == IF a > b THEN a ELSE b
Min(a, b) == IF a < b THEN a ELSE b

ContextInputs == Ids

\* getUserAndSurroundings(user_id):
\* await Promise.all([zRevRank, zScore, hGet]); a null rank or score sends the
\* call to the store, otherwise the user is built from the three replies
getUserAndSurroundings(p, user_id) ==
  /\ CanStart(p)
  /\ LET rank == zRevRank(zset, toString(user_id))
         score == zScore(zset, toString(user_id))
         userData == hGet(hash, toString(user_id))
         parsedUserData == IF userData # NullString THEN JSONparse(userData)
                           ELSE [name |-> Unknown, image |-> <<>>]
         call == [NoCall EXCEPT !.op = "getUserAndSurroundings",
                                !.user_id = user_id, !.pre = Snapshot,
                                !.issued = {"zRevRank", "zScore", "hGet"}]
     IN calls' = [calls EXCEPT ![p] =
                    IF rank = Null \/ score = Null
                    THEN [call EXCEPT !.pc = "fallback"]
                    ELSE [call EXCEPT
                            !.pc = "card", !.rank = rank,
                            !.user = UserWithRank(rank + 1, user_id,
                                                  parsedUserData.name,
                                                  parsedUserData.image, score)]]
  /\ UNCHANGED <<build, MAX_CACHE_SIZE, slots, users, seq, conns, created, idle, zset, hash, fails, outages, seen>>

\* const totalCachedUsers = await this.redis.zCard(REDIS_SORTED_SET)
getUserAndSurroundingsCard(p) ==
  /\ At(p, "getUserAndSurroundings", "card")
  /\ calls' = [calls EXCEPT ![p].pc = "range", ![p].total = zCard(zset),
                            ![p].issued = @ \cup {"zCard"}]
  /\ UNCHANGED <<build, MAX_CACHE_SIZE, slots, budget, last, users, seq, conns, created, idle, zset, hash, fails, outages, seen>>

\* the rank windows of the two getContextUsers calls
AboveStart(rank) == Max(0, rank - ContextWindow)
AboveEnd(rank) == rank - 1
BelowStart(rank) == rank + 1
BelowEnd(rank, totalCachedUsers) == Min(rank + ContextWindow, totalCachedUsers - 1)

\* getContextUsers(startRank, endRank) up to its await: nothing is asked when
\* startRank > endRank, otherwise zRevRange(startRank, endRank)
ContextIds(z, startRank, endRank) ==
  IF startRank > endRank THEN <<>> ELSE zRevRange(z, startRank, endRank)

\* the two getContextUsers calls of the Promise.all send their zRevRange
getUserAndSurroundingsRange(p) ==
  /\ At(p, "getUserAndSurroundings", "range")
  /\ LET rank == calls[p].rank
         aboveIds == ContextIds(zset, AboveStart(rank), AboveEnd(rank))
         belowIds == ContextIds(zset, BelowStart(rank),
                                BelowEnd(rank, calls[p].total))
     IN calls' = [calls EXCEPT
                    ![p].userIds = aboveIds, ![p].belowIds = belowIds,
                    ![p].issued = @ \cup (IF AboveStart(rank) > AboveEnd(rank)
                                             /\ BelowStart(rank) > BelowEnd(rank, calls[p].total)
                                          THEN {} ELSE {"zRevRange"}),
                    ![p].pc = IF aboveIds = <<>> /\ belowIds = <<>>
                              THEN "done" ELSE "hydrate",
                    ![p].outcome = IF aboveIds = <<>> /\ belowIds = <<>>
                                   THEN "ok" ELSE @]
  /\ UNCHANGED <<build, MAX_CACHE_SIZE, slots, budget, last, users, seq, conns, created, idle, zset, hash, fails, outages, seen>>

\* getContextUsers after its zRevRange: an empty reply gives [], otherwise
\* Promise.all([getUserDataBatch, zmScore]) and the map
getContextUsers(z, h, userIds, startRank) ==
  IF userIds = <<>> THEN <<>>
  ELSE Hydrate(userIds, getUserDataBatch(h, userIds), zmScore(z, userIds),
               startRank)

\* both getContextUsers calls finish; return { user, above, below }
getUserAndSurroundingsHydrate(p) ==
  /\ At(p, "getUserAndSurroundings", "hydrate")
  /\ calls' = [calls EXCEPT
                 ![p].pc = "done", ![p].outcome = "ok",
                 ![p].issued = @ \cup {"hmGet", "zmScore"},
                 ![p].above = getContextUsers(zset, hash, calls[p].userIds,
                                              AboveStart(calls[p].rank)),
                 ![p].below = getContextUsers(zset, hash, calls[p].belowIds,
                                              BelowStart(calls[p].rank))]
  /\ UNCHANGED <<build, MAX_CACHE_SIZE, slots, budget, last, users, seq, conns, created, idle, zset, hash, fails, outages, seen>>

\* a ranking by score alone: rows with equal scores share a position
RankedUsersByScore(t) ==
  LET all == OrderByScoreDescIdAsc(t)
  IN [i \in 1..Len(all) |->
        UserWithRank(1 + Cardinality({q \in t : q.total_score > all[i].total_score}),
                     all[i].user_id, all[i].user_name, all[i].image_url,
                     all[i].total_score)]

\* a ranking of the rows the sorted set holds
RankedUsersCached(t) ==
  LET cached == {r \in t : zScore(zset, toString(r.user_id)) # Null}
      all == OrderByScoreDescIdAsc(cached)
  IN [i \in 1..Len(all) |->
        UserWithRank(1 + Cardinality({q \in cached : RowBefore(q, all[i])}),
                     all[i].user_id, all[i].user_name, all[i].image_url,
                     all[i].total_score)]

\* ranked_users: every row with RANK() OVER (ORDER BY total_score DESC,
\* user_id ASC) as position, in that order
RankedUsers(t) ==
  LET all == OrderByScoreDescIdAsc(t)
  IN [i \in 1..Len(all) |->
        UserWithRank(1 + Cardinality({q \in t : RowBefore(q, all[i])}),
                     all[i].user_id, all[i].user_name, all[i].image_url,
                     all[i].total_score)]

\* Array.prototype.slice(start, end) with 0 <= start
Slice(array, start, end) == SubSeq(array, start + 1, Min(end, Len(array)))

NoContext == [found |-> FALSE, user |-> NoUser, above |-> <<>>, below |-> <<>>]

\* TypeScript source: SELECT * FROM user_context WHERE user_id = $1; no row
\* throws, otherwise the row is the user and above and below are []
getUserContextFromDBTs(c, userId) ==
  LET rows == SelectSeq(RankedUsers(View(c)), LAMBDA u : u.user_id = userId)
  IN IF Len(rows) = 0 THEN NoContext
     ELSE [found |-> TRUE, user |-> rows[1], above |-> <<>>, below |-> <<>>]

\* dist build: the rows whose position is within the window of the target's
\* position, ORDER BY position; findIndex of the target, -1 throws; above and
\* below are slices around it
getUserContextFromDBJs(c, userId) ==
  LET ranked == RankedUsers(View(c))
      target == SelectSeq(ranked, LAMBDA u : u.user_id = userId)
      rows == IF Len(target) = 0 THEN <<>>
              ELSE SelectSeq(ranked,
                     LAMBDA u : /\ u.position >= target[1].position - ContextWindow
                                /\ u.position <= target[1].position + ContextWindow)
      found == {i \in 1..Len(rows) : rows[i].user_id = userId}
  IN IF found = {} THEN NoContext
     ELSE LET targetIndex == (CHOOSE i \in found : \A j \in found : i <= j) - 1
          IN [found |-> TRUE,
              user |-> rows[targetIndex + 1],
              above |-> Slice(rows, Max(0, targetIndex - ContextWindow), targetIndex),
              below |-> Slice(rows, targetIndex + 1, targetIndex + 1 + ContextWindow)]

\* return await this.getUserContextFromDB(user_id): one query through the
\* pool; the error of a missing user passes through the catch block
getUserAndSurroundingsFallbackTs(p) ==
  /\ build = "ts"
  /\ At(p, "getUserAndSurroundings", "fallback")
  /\ CanAcquire
  /\ LET r == getUserContextFromDBTs(Acquired, calls[p].user_id)
     IN calls' = [calls EXCEPT
                    ![p].pc = "done",
                    ![p].outcome = IF r.found THEN "ok" ELSE "NotFound",
                    ![p].user = r.user, ![p].above = r.above,
                    ![p].below = r.below]
  /\ idle' = IdleAfterQuery
  /\ created' = CreatedAfterAcquire
  /\ UNCHANGED <<build, MAX_CACHE_SIZE, slots, budget, last, users, seq, conns, zset, hash, fails, outages, seen>>

getUserAndSurroundingsFallbackJs(p) ==
  /\ build = "js"
  /\ At(p, "getUserAndSurroundings", "fallback")
  /\ CanAcquire
  /\ LET r == getUserContextFromDBJs(Acquired, calls[p].user_id)
     IN calls' = [calls EXCEPT
                    ![p].pc = "done",
                    ![p].outcome = IF r.found THEN "ok" ELSE "NotFound",
                    ![p].user = r.user, ![p].above = r.above,
                    ![p].below = r.below]
  /\ idle' = IdleAfterQuery
  /\ created' = CreatedAfterAcquire
  /\ UNCHANGED <<build, MAX_CACHE_SIZE, slots, budget, last, users, seq, conns, zset, hash, fails, outages, seen>>

\* Redis rejects a command of getTopN: the zRevRange, or one of the lookups
\* that follow it.  The catch block logs the error and throws it again.
getTopNCacheFails(p) ==
  /\ fails + outages < MaxFail
  /\ outages' = outages + 1
  /\ \/ /\ CanStart(p)
        /\ \E n \in 1..MAX_CACHE_SIZE :
             calls' = [calls EXCEPT ![p] =
                         [NoCall EXCEPT !.op = "getTopN", !.n = n, !.pc = "done",
                                        !.outcome = "CacheError", !.pre = Snapshot,
                                        !.issued = {"zRevRange"}]]
     \/ /\ At(p, "getTopN", "hydrate")
        /\ calls' = [calls EXCEPT ![p].pc = "done", ![p].outcome = "CacheError",
                                  ![p].issued = @ \cup {"hmGet", "zmScore"}]
        /\ UNCHANGED <<budget, last>>
  /\ UNCHANGED <<build, MAX_CACHE_SIZE, slots, users, seq, conns, created, idle, zset, hash, fails, seen>>

\* Redis rejects a command of getUserAndSurroundings: one of the first three,
\* the zCard, a zRevRange or one of the lookups.  The catch block logs the
\* error and throws it again.
getUserAndSurroundingsCacheFails(p) ==
  /\ fails + outages < MaxFail
  /\ outages' = outages + 1
  /\ \/ /\ CanStart(p)
        /\ \E user_id \in ContextInputs :
             calls' = [calls EXCEPT ![p] =
                         [NoCall EXCEPT !.op = "getUserAndSurroundings",
                                        !.user_id = user_id, !.pc = "done",
                                        !.outcome = "CacheError", !.pre = Snapshot,
                                        !.issued = {"zRevRank", "zScore", "hGet"}]]
     \/ /\ calls[p].op = "getUserAndSurroundings"
        /\ calls[p].pc \in {"card", "range", "hydrate"}
        /\ calls' = [calls EXCEPT
                       ![p].pc = "done", ![p].outcome = "CacheError",
                       ![p].issued = @ \cup (IF calls[p].pc = "card" THEN {"zCard"}
                                             ELSE IF calls[p].pc = "range"
                                             THEN {"zRevRange"}
                                             ELSE {"hmGet", "zmScore"})]
        /\ UNCHANGED <<budget, last>>
  /\ UNCHANGED <<build, MAX_CACHE_SIZE, slots, users, seq, conns, created, idle, zset, hash, fails, seen>>

\* the caller takes the result or the error of a finished call
Return(p) ==
  /\ calls[p].pc = "done"
  /\ calls' = [calls EXCEPT ![p] = NoCall]
  /\ last' = IF /\ calls[p].op = "updateScore"
                /\ calls[p].outcome # "ValidationError"
                /\ fails = calls[p].pre.fails
                /\ outages = calls[p].pre.outages
             THEN [user_id |-> calls[p].user_id, score |-> calls[p].score]
             ELSE NoLast
  /\ UNCHANGED <<build, MAX_CACHE_SIZE, slots, budget, users, seq, conns, created, idle, zset, hash, fails, outages, seen>>

\* ------------------------------------------------------------------ handlers
\* The status the HTTP handler sends for a finished call, given the request
\* fields the call was made with.  A request the handler refuses itself does
\* not reach the service.
\* addUserHandler: 400 when user_name is falsy or total_score is undefined,
\* 201 when createUser returns, 500 when it throws
addUserHandler(call) ==
  IF call.args.username = <<>> \/ call.args.score = Undefined THEN 400
  ELSE IF call.outcome = "ok" THEN 201
  ELSE 500

\* updateUserScoreHandler: 400 when Number(req.params.id) is NaN or
\* total_score is undefined, 200 when updateScore returns, 500 when it throws
updateUserScoreHandler(call) ==
  IF call.args.user_id = Undefined \/ call.args.score = Undefined THEN 400
  ELSE IF call.outcome = "ok" THEN 200
  ELSE 500

\* ------------------------------------------------------------------ specification
InitState ==
  /\ build \in {"ts", "js"}
  /\ users = {}
  /\ seq = 1
  /\ conns = [c \in Conns |-> [txn |-> "none", pend |-> {}]]
  /\ created = 0
  /\ idle = <<>>
  /\ zset = {}
  /\ hash = {}
  /\ calls = [p \in Procs |-> NoCall]
  /\ fails = 0
  /\ outages = 0
  /\ last = NoLast
  /\ seen = {}

\* requests handled one at a time
Init == InitState /\ MAX_CACHE_SIZE = SmallCache /\ slots = 1 /\ budget = 0
\* requests handled one at a time by a service with the larger cache
InitWide == InitState /\ MAX_CACHE_SIZE = LargeCache /\ slots = 1 /\ budget = 0
\* Up to MaxProcs requests in flight, MaxCalls of them in the run.  The run
\* starts where a sequence of earlier calls and a resync have left the
\* system: some users committed in the store, the cache rebuilt from them,
\* every connection back in the pool with no transaction open.
InitConc ==
  /\ build \in {"ts", "js"}
  /\ MAX_CACHE_SIZE = SmallCache
  /\ \E m \in 0..(MaxId - 1) : \E sc \in [1..m -> Scores] :
       /\ users = {Row(i, NameOf(i), CHOOSE u \in Images : TRUE, sc[i]) : i \in 1..m}
       /\ seq = m + 1
       /\ created = IF m = 0 THEN 0 ELSE IF build = "ts" THEN 2 ELSE 1
       /\ idle = IF m = 0 THEN <<>> ELSE IF build = "ts" THEN <<2, 1>> ELSE <<1>>
       /\ seen = IF m = 0 THEN {} ELSE IF build = "ts" THEN {"error", "sync"} ELSE {"sync"}
  /\ conns = [c \in Conns |-> [txn |-> "none", pend |-> {}]]
  /\ LET all == OrderByScoreDescIdAsc(users)
         r == LoadRows(SubSeq(all, 1, IF Len(all) < MAX_CACHE_SIZE THEN Len(all)
                                      ELSE MAX_CACHE_SIZE), {}, {})
     IN zset = r.zset /\ hash = r.hash
  /\ calls = [p \in Procs |-> NoCall]
  /\ fails = 0
  /\ outages = 0
  /\ last = NoLast
  /\ slots = MaxProcs
  /\ budget = MaxCalls

Next ==
  \E p \in Procs :
    \/ \E a \in CreateUserInputs : createUser(p, a[1], a[2], a[3])
    \/ createUserConnect(p)
    \/ createUserBegin(p)
    \/ createUserInsertJs(p)
    \/ createUserInsertTs(p)
    \/ createUserCache(p)
    \/ createUserEvict(p)
    \/ createUserStoreFails(p)
    \/ createUserCacheFails(p)
    \/ createUserRollback(p)
    \/ \E a \in UpdateScoreInputs : updateScore(p, a[1], a[2])
    \/ updateScoreConnect(p)
    \/ updateScoreBegin(p)
    \/ updateScoreUpdateJs(p)
    \/ updateScoreUpdateTs(p)
    \/ updateScoreCache(p)
    \/ updateScoreEvict(p)
    \/ updateScoreCommit(p)
    \/ updateScoreStoreFails(p)
    \/ updateScoreCacheFails(p)
    \/ updateScoreRollback(p)
    \/ syncCacheFromDB(p)
    \/ syncCacheFromDBQuery(p)
    \/ syncCacheFromDBExec(p)
    \/ \E n \in TopNInputs : getTopN(p, n)
    \/ \E id \in ContextInputs : getUserAndSurroundings(p, id)
    \/ getUserAndSurroundingsCard(p)
    \/ getUserAndSurroundingsRange(p)
    \/ getUserAndSurroundingsHydrate(p)
    \/ getUserAndSurroundingsFallbackTs(p)
    \/ getUserAndSurroundingsFallbackJs(p)
    \/ getTopNHydrate(p)
    \/ getTopNCacheFails(p)
    \/ getUserAndSurroundingsCacheFails(p)
    \/ Return(p)

Spec == Init /\ [][Next]_vars
SpecConc == InitConc /\ [][Next]_vars
SpecWide == InitWide /\ [][Next]_vars

\* runs made of updateScore calls alone, no store statement and no cache
\* command failing
NextUpdates ==
  \E p \in Procs :
    \/ \E a \in UpdateScoreInputs : updateScore(p, a[1], a[2])
    \/ updateScoreConnect(p)
    \/ updateScoreBegin(p)
    \/ updateScoreUpdateJs(p)
    \/ updateScoreUpdateTs(p)
    \/ updateScoreCache(p)
    \/ updateScoreEvict(p)
    \/ updateScoreCommit(p)
    \/ updateScoreRollback(p)
    \/ Return(p)

SpecUpdates == InitConc /\ [][NextUpdates]_vars

\* ------------------------------------------------------------------ properties
\* no call is between two of its steps
Quiescent == \A p \in Procs : calls[p].pc \in {"idle", "done"}

\* a sorted set as pairs <<id, score>>
Pairs(z) == {<<parseInt(e.value), e.score>> : e \in z}

\* the pairs <<id, score>> of the first k rows of t under (score DESC, id ASC)
FirstK(t, k) ==
  {<<r.user_id, r.total_score>> :
     r \in {q \in t : Cardinality({x \in t : RowBefore(x, q)}) < k}}

\* createUser has returned normally in slot p
CreatedOk(p) ==
  calls[p].op = "createUser" /\ calls[p].pc = "done" /\ calls[p].outcome = "ok"

\* the entry of z that is last under (score DESC, id ASC)
LastEntry(z) ==
  CHOOSE e \in z : \A f \in z :
     \/ f.score > e.score
     \/ f.score = e.score /\ parseInt(f.value) <= parseInt(e.value)

\* C1: after any sequence of successful createUser and updateScore calls, run
\* one at a time with no failure, the Rank Index holds exactly the first
\* min(K, number of store entities) entities under (score DESC, id ASC), each
\* with its store score.
C1_RankIndexIsTopK ==
  (Quiescent /\ seen = {} /\ fails = 0 /\ outages = 0)
     => Pairs(zset) = FirstK(StoreView, MAX_CACHE_SIZE)

\* C2: for 1 <= n <= K, the list getTopN(n) returns from the cache has
\* non-increasing scores, and entries with equal scores come lower id first.
C2_TopNOrdered ==
  \A p \in Procs :
    (calls[p].op = "getTopN" /\ calls[p].pc = "done"
       /\ calls[p].outcome = "ok"
       /\ calls[p].n >= 1 /\ calls[p].n <= MAX_CACHE_SIZE)
    => \A i \in 1..(Len(calls[p].result) - 1) :
         LET a == calls[p].result[i]
             b == calls[p].result[i + 1]
         IN \/ a.total_score > b.total_score
            \/ a.total_score = b.total_score /\ a.user_id < b.user_id

\* every store entity is in the Rank Index with its store score
CacheHoldsStore ==
  /\ Cardinality(StoreView) <= MAX_CACHE_SIZE
  /\ Pairs(zset) = {<<r.user_id, r.total_score>> : r \in StoreView}

Ranking(result) ==
  [i \in 1..Len(result) |->
     <<result[i].position, result[i].user_id, result[i].total_score>>]

\* C3: whenever every store entity is in the Rank Index with its store score,
\* getTopN(n) answered from the cache returns the same sequence of
\* (position, id, score) as the store query getTopUsersFromDB(n).
C3_CacheRanksLikeStore ==
  \A p \in Procs :
    (calls[p].op = "getTopN" /\ calls[p].pc = "done"
       /\ calls[p].outcome = "ok"
       /\ calls[p].n >= 1 /\ calls[p].n <= MAX_CACHE_SIZE
       /\ CanAcquire /\ CacheHoldsStore)
    => Ranking(calls[p].result) = Ranking(getTopUsersFromDB(Acquired, calls[p].n))

\* C4: once every createUser, updateScore and syncCacheFromDB call of an
\* arbitrary interleaving has run to completion, the Rank Index holds at most
\* K entries (no store statement and no cache command having failed).
C4_BoundAfterAllCalls ==
  (Quiescent /\ fails = 0 /\ outages = 0) => zCard(zset) <= MAX_CACHE_SIZE

\* C5: when the Rank Index holds exactly K entries and createUser adds an
\* entity whose score is strictly higher than the score of the entry last
\* under (score DESC, id ASC), then after the call exactly that entry has been
\* removed, the new entity is present and the other K-1 entries remain.
C5_EvictionBoundary ==
  \A p \in Procs :
    (CreatedOk(p)
       /\ Cardinality(calls[p].pre.zset) = MAX_CACHE_SIZE
       /\ calls[p].score > LastEntry(calls[p].pre.zset).score)
    => zset = (calls[p].pre.zset \ {LastEntry(calls[p].pre.zset)})
                \cup {[value |-> toString(calls[p].user_id),
                       score |-> calls[p].score]}

\* C6: when the Rank Index holds exactly K entries and createUser adds an
\* entity that ranks after all K of them, the entries of the Rank Index after
\* the call are those before the call.
C6_LowRankedCreateNetZero ==
  \A p \in Procs :
    (CreatedOk(p)
       /\ Cardinality(calls[p].pre.zset) = MAX_CACHE_SIZE
       /\ \A e \in calls[p].pre.zset :
            \/ e.score > calls[p].score
            \/ e.score = calls[p].score /\ parseInt(e.value) < calls[p].user_id)
    => zset = calls[p].pre.zset

\* createUser has ended in slot p, its arguments were valid and neither the
\* store nor the cache rejected any of its commands
CreateUserRan(p) ==
  /\ calls[p].op = "createUser"
  /\ calls[p].pc = "done"
  /\ calls[p].outcome \notin {"ValidationError", "StoreError", "CacheError"}

\* C7: createUser with valid arguments, a reachable store and a working cache
\* completes without raising; afterwards the store holds a committed new row
\* with a fresh id and the given name, score and image, and the Metadata
\* Table was updated under that id.
C7_CreateUserCommits ==
  \A p \in Procs :
    CreateUserRan(p)
    => /\ calls[p].outcome = "ok"
       /\ \E r \in users :
            /\ \A q \in calls[p].pre.users : q.user_id # r.user_id
            /\ r.user_name = calls[p].username
            /\ r.total_score = calls[p].score
            /\ r.image_url = calls[p].imageUrl
            /\ hGet(hash, toString(r.user_id))
                 = JSONstringify(calls[p].username, calls[p].imageUrl)

\* C8: updateScore(id, newScore) for an id that exists in the store, with a
\* valid newScore and no store or cache failure, completes without raising;
\* afterwards the committed score of id is newScore, and if id is in the Rank
\* Index its cached score is newScore.
C8_UpdateScoreCommits ==
  \A p \in Procs :
    (calls[p].op = "updateScore" /\ calls[p].pc = "done"
       /\ calls[p].outcome # "ValidationError"
       /\ fails = calls[p].pre.fails
       /\ outages = calls[p].pre.outages
       /\ \E r \in calls[p].pre.users : r.user_id = calls[p].user_id)
    => /\ calls[p].outcome = "ok"
       /\ \E r \in users : /\ r.user_id = calls[p].user_id
                           /\ r.total_score = calls[p].score
       /\ zScore(zset, toString(calls[p].user_id)) \in {Null, calls[p].score}

\* C9: in createUser and updateScore every write to the Rank Index or the
\* Metadata Table happens only after the store transaction carrying the
\* insert or update has been committed.
C9_CacheWriteAfterCommit ==
  [][\A p \in Procs :
       (calls[p].op \in {"createUser", "updateScore"}
          /\ calls[p].pc = "cache" /\ calls'[p].pc = "evict")
       => \E r \in users : /\ r.user_id = calls[p].user_id
                           /\ r.total_score = calls[p].score]_vars

\* C10: if a store step of createUser or updateScore fails (BEGIN, the INSERT
\* or UPDATE, COMMIT), the call surfaces an error and the store, the Rank
\* Index and the Metadata Table are as they were before the call.
C10_StoreFailureAtomic ==
  \A p \in Procs :
    (calls[p].op \in {"createUser", "updateScore"} /\ calls[p].pc = "done"
       /\ (fails > calls[p].pre.fails \/ calls[p].outcome = "StoreError"))
    => /\ calls[p].outcome # "ok"
       /\ users = calls[p].pre.users
       /\ zset = calls[p].pre.zset
       /\ hash = calls[p].pre.hash

\* updateScore has ended in slot p, its arguments were valid and neither the
\* store nor the cache failed while it ran
UpdateScoreRan(p) ==
  /\ calls[p].op = "updateScore"
  /\ calls[p].pc = "done"
  /\ calls[p].outcome # "ValidationError"
  /\ fails = calls[p].pre.fails
  /\ outages = calls[p].pre.outages

\* C11: updateScore(id, s) for a valid id that does not exist in the store
\* fails with a not-found error, rolls back its transaction and leaves the
\* store, the Rank Index and the Metadata Table unchanged, with no zAdd and no
\* eviction issued.
C11_UpdateMissingIsNotFound ==
  \A p \in Procs :
    (UpdateScoreRan(p)
       /\ \A r \in calls[p].pre.store : r.user_id # calls[p].user_id)
    => /\ calls[p].outcome = "NotFound"
       /\ conns[calls[p].client].txn = "none"
       /\ users = calls[p].pre.users
       /\ zset = calls[p].pre.zset
       /\ hash = calls[p].pre.hash
       /\ calls[p].issued = {}

\* C12: calling updateScore(id, s) twice in a row with the same s leaves the
\* Rank Index and the Metadata Table as calling it once does: the second call
\* changes neither.
C12_UpdateScoreIdempotent ==
  \A p \in Procs :
    (UpdateScoreRan(p) /\ calls[p].repeat)
    => zset = calls[p].pre.zset /\ hash = calls[p].pre.hash

\* the second of two equal updateScore calls has written the Rank Index and
\* returned
C12_Witness ==
  \E p \in Procs :
    /\ UpdateScoreRan(p) /\ calls[p].repeat
    /\ calls[p].outcome = "ok"
    /\ "zAdd" \in calls[p].issued
    /\ zScore(zset, toString(calls[p].user_id)) = calls[p].score

\* the arguments the validators are to refuse
BadScore(v) == v = Undefined \/ ~v.integer \/ v.value < 0
BadCreateUser(a) ==
  \/ trim(a.username) = <<>>
  \/ BadScore(a.score)
  \/ a.imageUrl # <<>> /\ ~URLParses(a.imageUrl)
BadUpdateScore(a) ==
  \/ a.user_id = Undefined \/ ~a.user_id.integer \/ a.user_id.value <= 0
  \/ BadScore(a.score)

\* C13: createUser with an empty or blank name, a negative, non-integer or
\* missing score or a malformed image URL, and updateScore with an id that is
\* not a positive integer or an invalid score, raise a validation error
\* without acquiring a store connection and leave the store, the Rank Index
\* and the Metadata Table unchanged.
C13_ValidationBeforeMutation ==
  \A p \in Procs :
    (\/ calls[p].op = "createUser" /\ BadCreateUser(calls[p].args)
     \/ calls[p].op = "updateScore" /\ BadUpdateScore(calls[p].args))
    => /\ calls[p].pc = "done"
       /\ calls[p].outcome = "ValidationError"
       /\ calls[p].client = 0
       /\ calls[p].issued = {}
       /\ users = calls[p].pre.users
       /\ StoreView = calls[p].pre.store
       /\ zset = calls[p].pre.zset
       /\ hash = calls[p].pre.hash

\* a call with a fractional score has been refused while the store held rows
C13_Witness ==
  \E p \in Procs :
    /\ calls[p].op \in {"createUser", "updateScore"}
    /\ calls[p].args.score.type = "number" /\ ~calls[p].args.score.integer
    /\ calls[p].outcome = "ValidationError"
    /\ users # {} /\ zset # {}

\* C14: createUser with a valid name, a valid score and an empty image
\* reference passes validation and creates the entity with an empty image.
C14_EmptyImageAccepted ==
  \A p \in Procs :
    (/\ calls[p].op = "createUser" /\ calls[p].pc = "done"
     /\ trim(calls[p].args.username) # <<>>
     /\ ~BadScore(calls[p].args.score)
     /\ calls[p].args.imageUrl = <<>>)
    => calls[p].outcome # "ValidationError"

\* C15: if a Rank Index or Metadata Table command fails inside createUser or
\* updateScore after the store write succeeded, the store write still ends
\* up committed.
C15_CacheFailureKeepsStoreWrite ==
  \A p \in Procs :
    (/\ calls[p].op \in {"createUser", "updateScore"}
     /\ calls[p].pc = "done"
     /\ outages > calls[p].pre.outages)
    => \E r \in users : /\ r.user_id = calls[p].user_id
                        /\ r.total_score = calls[p].score

\* C16: for every n > K, getTopN(n) issues no read on the Rank Index or the
\* Metadata Table and returns the first min(n, number of store entities)
\* entities in the order (score DESC, id ASC), with their store fields.
C16_TopNAboveBoundFromStore ==
  \A p \in Procs :
    (calls[p].op = "getTopN" /\ calls[p].pc = "done"
       /\ calls[p].n > MAX_CACHE_SIZE)
    => LET t == StoreView
           res == calls[p].result
       IN /\ calls[p].outcome = "ok"
          /\ calls[p].issued = {}
          /\ Len(res) = IF calls[p].n < Cardinality(t) THEN calls[p].n
                        ELSE Cardinality(t)
          /\ \A i \in 1..Len(res) :
               \E r \in t :
                 /\ Cardinality({q \in t :
                        \/ q.total_score > r.total_score
                        \/ q.total_score = r.total_score
                             /\ q.user_id < r.user_id}) = i - 1
                 /\ res[i] = [position |-> i, user_id |-> r.user_id,
                              user_name |-> r.user_name,
                              image_url |-> r.image_url,
                              total_score |-> r.total_score]

\* getTopN(n) with n > K has returned more than K entities, two of them with
\* equal scores, while the Rank Index lacks one of them
C16_Witness ==
  \E p \in Procs :
    /\ calls[p].op = "getTopN" /\ calls[p].pc = "done"
    /\ calls[p].n > MAX_CACHE_SIZE
    /\ Len(calls[p].result) > MAX_CACHE_SIZE
    /\ calls[p].result[1].total_score = calls[p].result[2].total_score
    /\ \E i \in 1..Len(calls[p].result) :
         zScore(zset, toString(calls[p].result[i].user_id)) = Null

\* getUserAndSurroundings has ended in slot p, Redis having answered every
\* command it sent
ContextRan(p) ==
  /\ calls[p].op = "getUserAndSurroundings" /\ calls[p].pc = "done"
  /\ calls[p].outcome # "CacheError"
\* the id asked for was in the Rank Index, was in the store, when p started
InCacheAtStart(p) ==
  \E e \in calls[p].pre.zset : e.value = toString(calls[p].user_id)
InStoreAtStart(p) ==
  \E r \in calls[p].pre.store : r.user_id = calls[p].user_id
\* the call ended by returning a value that says "not found", raising nothing
ReturnedNotFound(p) == calls[p].outcome = "ok" /\ calls[p].user = NoUser

\* C17: getUserAndSurroundings(id) ends with a "not found" result, and not
\* with a raised error, exactly when id is in neither the Rank Index nor the
\* store.
C17_NotFoundIsAResult ==
  \A p \in Procs :
    ContextRan(p)
    => (ReturnedNotFound(p) <=> (~InCacheAtStart(p) /\ ~InStoreAtStart(p)))

\* the store position of row r among the rows t: 1 plus the rows before it
\* under (score DESC, id ASC)
StorePosition(t, r) ==
  1 + Cardinality({q \in t : \/ q.total_score > r.total_score
                             \/ q.total_score = r.total_score
                                  /\ q.user_id < r.user_id})
\* row r as an entry of a context answer
StoreEntry(t, r) ==
  [position |-> StorePosition(t, r), user_id |-> r.user_id,
   user_name |-> r.user_name, image_url |-> r.image_url,
   total_score |-> r.total_score]

\* C18: getUserAndSurroundings(id) for an id in the store but not in the Rank
\* Index returns a user whose fields and position come from the store, the
\* position being 1 plus the number of store entities before id.
C18_CacheMissFallsBackToStore ==
  \A p \in Procs :
    (ContextRan(p) /\ ~InCacheAtStart(p) /\ InStoreAtStart(p))
    => /\ calls[p].outcome = "ok"
       /\ \E r \in calls[p].pre.store :
            /\ r.user_id = calls[p].user_id
            /\ calls[p].user = StoreEntry(calls[p].pre.store, r)

\* an evicted id whose metadata is still in the hash, second or later among
\* store rows of equal score, has been answered from the store
C18_Witness ==
  \E p \in Procs :
    /\ ContextRan(p) /\ ~InCacheAtStart(p) /\ InStoreAtStart(p)
    /\ calls[p].outcome = "ok"
    /\ calls[p].user.position > 1
    /\ \E r \in calls[p].pre.store :
         /\ r.user_id # calls[p].user_id
         /\ r.total_score = calls[p].user.total_score
    /\ hGet(hash, toString(calls[p].user_id)) # NullString

\* C19: on the store-fallback path the list above holds the store entities
\* immediately before id and the list below those immediately after it, up to
\* the window on each side, each with its store position.
C19_FallbackNeighbours ==
  \A p \in Procs :
    (ContextRan(p) /\ ~InCacheAtStart(p) /\ InStoreAtStart(p))
    => LET t == calls[p].pre.store
           r == CHOOSE q \in t : q.user_id = calls[p].user_id
           pos == StorePosition(t, r)
           na == Min(ContextWindow, pos - 1)
           nb == Min(ContextWindow, Cardinality(t) - pos)
       IN /\ Len(calls[p].above) = na
          /\ Len(calls[p].below) = nb
          /\ \A i \in 1..na : \E q \in t :
                /\ StorePosition(t, q) = pos - na + i - 1
                /\ calls[p].above[i] = StoreEntry(t, q)
          /\ \A i \in 1..nb : \E q \in t :
                /\ StorePosition(t, q) = pos + i
                /\ calls[p].below[i] = StoreEntry(t, q)

Degraded(entries, ids) ==
  /\ Len(entries) = Len(ids)
  /\ \A i \in 1..Len(ids) :
       /\ entries[i].user_id = parseInt(ids[i])
       /\ hGet(hash, ids[i]) = NullString
            => entries[i].user_name = <<"U", "n", "k", "n", "o", "w", "n">>
               /\ entries[i].image_url = <<>>
       /\ zScore(zset, ids[i]) = Null => entries[i].total_score = 0

\* C21: in getTopN (n <= K) and on the cache-hit path of
\* getUserAndSurroundings, under any interleaving with writes, evictions and
\* resyncs, the step that looks up metadata and scores for the ids of the
\* range read ends the call normally with one entry per id, "Unknown" and an
\* empty image where the metadata is missing and score 0 where the score is.
C21_LookupFailuresDegrade ==
  [][\A p \in Procs :
       (calls[p].pc = "hydrate" /\ calls'[p].pc = "done" /\ outages' = outages)
       => /\ calls'[p].outcome = "ok"
          /\ calls[p].op = "getTopN"
               => Degraded(calls'[p].result, calls[p].userIds)
          /\ calls[p].op = "getUserAndSurroundings"
               => /\ Degraded(calls'[p].above, calls[p].userIds)
                  /\ Degraded(calls'[p].below, calls[p].belowIds)]_vars

\* getTopN has returned an entry for an id that a resync removed from the
\* sorted set and the hash between the range read and the lookups
C21_Witness ==
  \E p \in Procs :
    /\ calls[p].op = "getTopN" /\ calls[p].pc = "done" /\ calls[p].outcome = "ok"
    /\ "zmScore" \in calls[p].issued
    /\ \E q \in Procs : calls[q].op = "syncCacheFromDB" /\ calls[q].pc = "query"
    /\ \E i \in 1..Len(calls[p].result) :
         /\ calls[p].result[i].user_name = Unknown
         /\ calls[p].result[i].total_score = 0
         /\ zScore(zset, calls[p].userIds[i]) = Null
         /\ hGet(hash, calls[p].userIds[i]) = NullString

\* C22: in every state reached by a failure-free sequence of createUser,
\* updateScore and syncCacheFromDB calls in which no call is mid-flight, every
\* id present in the Rank Index has an entry in the Metadata Table.
C22_RankedIdsHaveMetadata ==
  (Quiescent /\ fails = 0 /\ outages = 0)
     => \A e \in zset : hGet(hash, e.value) # NullString

\* C23: whenever the bound enforcement of createUser or updateScore removes
\* an id from the Rank Index, that id's Metadata Table entry is removed as
\* well.
C23_MetadataEvictedWithRank ==
  [][\A p \in Procs :
       (calls[p].op \in {"createUser", "updateScore"}
          /\ calls[p].pc = "evict" /\ calls'[p].pc \in {"done", "commit"})
       => \A e \in zset :
            zScore(zset', e.value) = Null => hGet(hash', e.value) = NullString]_vars

\* the store rows that have fewer than k rows before them under
\* (score DESC, id ASC)
TopRows(t, k) ==
  {r \in t : Cardinality({q \in t : \/ q.total_score > r.total_score
                                    \/ q.total_score = r.total_score
                                         /\ q.user_id < r.user_id}) < k}

ReadBesideResync(p) ==
  /\ calls[p].op \in {"getTopN", "getUserAndSurroundings"}
  /\ calls[p].pc = "done"
  /\ calls[p].outcome # "CacheError"
  /\ \E q \in Procs \ {p} : calls[q].op = "syncCacheFromDB"
  /\ budget = MaxCalls - 2

\* C25: for every interleaving of the steps of syncCacheFromDB with the steps
\* of a getTopN call, or of a getUserAndSurroundings call on an id that exists
\* in the store, the read completes without raising an error; what it returns
\* is built from the cache as it was read or from the store.
C25_ResyncBesideReads ==
  \A p \in Procs :
    (ReadBesideResync(p)
       /\ (calls[p].op = "getUserAndSurroundings" => InStoreAtStart(p)))
    => /\ calls[p].outcome = "ok"
       /\ calls[p].op = "getUserAndSurroundings"
            => /\ calls[p].user.user_id = calls[p].user_id
               /\ \/ /\ calls[p].rank # Null
                     /\ calls[p].user.position = calls[p].rank + 1
                  \/ /\ calls[p].rank = Null
                     /\ \E r \in StoreView : calls[p].user = StoreEntry(StoreView, r)
       /\ calls[p].op = "getTopN"
            => \/ calls[p].n > MAX_CACHE_SIZE
               \/ Len(calls[p].result) = Len(calls[p].userIds)

\* a getUserAndSurroundings call that started after a resync had deleted the
\* sorted set has been answered from the store while the resync had not yet
\* loaded the cache again
C25_Witness ==
  \E p \in Procs :
    /\ ReadBesideResync(p)
    /\ calls[p].op = "getUserAndSurroundings"
    /\ calls[p].pre.zset = {} /\ calls[p].pre.users # {}
    /\ calls[p].rank = Null /\ calls[p].outcome = "ok"
    /\ \E q \in Procs : calls[q].op = "syncCacheFromDB" /\ calls[q].pc \in {"query", "exec"}

\* C26: for any interleaving of two failure-free updateScore calls on the
\* same existing id, once both have completed the Rank Index score of that
\* id, if the id is cached, equals the score committed in the store.
C26_ConcurrentUpdatesAgree ==
  \A p, q \in Procs :
    (/\ p # q
     /\ Quiescent
     /\ UpdateScoreRan(p) /\ UpdateScoreRan(q)
     /\ calls[p].outcome = "ok" /\ calls[q].outcome = "ok"
     /\ calls[p].user_id = calls[q].user_id)
    => \E r \in users :
         /\ r.user_id = calls[p].user_id
         /\ zScore(zset, toString(r.user_id)) \in {Null, r.total_score}

\* two updateScore calls that started from the same store, with different
\* scores for the same id, have both completed and the id is cached
C26_Witness ==
  \E p, q \in Procs :
    /\ p # q
    /\ Quiescent
    /\ UpdateScoreRan(p) /\ UpdateScoreRan(q)
    /\ calls[p].outcome = "ok" /\ calls[q].outcome = "ok"
    /\ calls[p].user_id = calls[q].user_id
    /\ calls[p].score # calls[q].score
    /\ calls[p].pre.users = calls[q].pre.users
    /\ zScore(zset, toString(calls[p].user_id)) # Null

\* the call in slot p holds the connection it acquired: it is past
\* db.connect() and before its finally block
HoldsClient(p) ==
  /\ calls[p].op \in {"createUser", "updateScore"}
  /\ calls[p].pc \in {"begin", "insert", "update", "cache", "evict", "commit",
                      "rollback"}

\* how many times connection c is in the pool's idle list
IdleCount(c) == Cardinality({i \in 1..Len(idle) : idle[i] = c})

\* C27: every connection acquired by createUser or updateScore is released
\* exactly once on every exit path: at any moment a connection the pool has
\* opened is either held by the one call that acquired it or once in the idle
\* list, and a call that has ended holds none.
C27_ReleasedExactlyOnce ==
  /\ \A c \in Conns :
       IdleCount(c) + Cardinality({p \in Procs : HoldsClient(p) /\ calls[p].client = c})
         = IF c <= created THEN 1 ELSE 0
  /\ Quiescent => Len(idle) = created

\* updateScore has ended after its COMMIT was rejected, and the connection it
\* had acquired is back in the idle list
C27_Witness ==
  \E p \in Procs :
    /\ calls[p].op = "updateScore" /\ calls[p].pc = "done"
    /\ calls[p].outcome = "StoreError"
    /\ "zRemRangeByRank" \in calls[p].issued
    /\ IdleCount(calls[p].client) = 1

\* a read has ended in slot p and Redis rejected one of its commands
ReadThroughOutage(p) ==
  /\ calls[p].op \in {"getTopN", "getUserAndSurroundings"}
  /\ calls[p].pc = "done"
  /\ outages > calls[p].pre.outages

\* C28: when Redis rejects the commands of a read, getTopN(n) for n <= K and
\* getUserAndSurroundings(id) for an id in the store still return the result
\* computed from the store instead of failing.
C28_CacheOutageFallsBack ==
  \A p \in Procs :
    ReadThroughOutage(p)
    => /\ (calls[p].op = "getTopN" /\ calls[p].n <= MAX_CACHE_SIZE)
            => /\ calls[p].outcome = "ok"
               /\ Len(calls[p].result)
                    = Min(calls[p].n, Cardinality(calls[p].pre.store))
               /\ \A i \in 1..Len(calls[p].result) :
                    \E r \in calls[p].pre.store :
                      calls[p].result[i] = StoreEntry(calls[p].pre.store, r)
                        /\ StorePosition(calls[p].pre.store, r) = i
       /\ (calls[p].op = "getUserAndSurroundings" /\ InStoreAtStart(p))
            => /\ calls[p].outcome = "ok"
               /\ \E r \in calls[p].pre.store :
                    /\ r.user_id = calls[p].user_id
                    /\ calls[p].user = StoreEntry(calls[p].pre.store, r)

\* C29: every request to the create-user and update-score handlers whose
\* input fails validation (missing field, wrong type, negative or non-integer
\* score, empty name, malformed image URL, non-positive or non-integer id)
\* gets HTTP status 400, never 500, and causes no state change.
C29_InvalidRequestsGet400 ==
  \A p \in Procs :
    calls[p].pc = "done"
    => /\ (calls[p].op = "createUser" /\ BadCreateUser(calls[p].args))
            => /\ addUserHandler(calls[p]) = 400
               /\ users = calls[p].pre.users
               /\ zset = calls[p].pre.zset /\ hash = calls[p].pre.hash
       /\ (calls[p].op = "updateScore" /\ BadUpdateScore(calls[p].args))
            => /\ updateUserScoreHandler(calls[p]) = 400
               /\ users = calls[p].pre.users
               /\ zset = calls[p].pre.zset /\ hash = calls[p].pre.hash

\* C30: for every integer n with 0 <= n <= K and a Rank Index of size s with
\* no concurrent write, getTopN(n) returns exactly min(n, s) entries; in
\* particular the empty list, without error, when the Rank Index is empty and
\* when n = 0.
C30_TopNLength ==
  \A p \in Procs :
    (/\ calls[p].op = "getTopN" /\ calls[p].pc = "done"
     /\ calls[p].outcome # "CacheError"
     /\ calls[p].n >= 0 /\ calls[p].n <= MAX_CACHE_SIZE)
    => /\ calls[p].outcome = "ok"
       /\ Len(calls[p].result) = Min(calls[p].n, zCard(calls[p].pre.zset))

\* C31: for every n >= 1, on the cache path (n <= K) and on the store path
\* (n > K), the positions in the list getTopN(n) returns are exactly
\* 1, 2, ..., length in list order, also among entities with equal scores.
C31_TopNPositionsDense ==
  \A p \in Procs :
    (calls[p].op = "getTopN" /\ calls[p].pc = "done"
       /\ calls[p].outcome = "ok" /\ calls[p].n >= 1)
    => \A i \in 1..Len(calls[p].result) : calls[p].result[i].position = i

\* getTopN(n) with n > K has returned three entities from the store, the
\* second and the third with equal scores
C31_Witness ==
  \E p \in Procs :
    /\ calls[p].op = "getTopN" /\ calls[p].pc = "done" /\ calls[p].outcome = "ok"
    /\ calls[p].n > MAX_CACHE_SIZE
    /\ calls[p].issued = {}
    /\ Len(calls[p].result) = MAX_CACHE_SIZE + 1
    /\ calls[p].result[2].total_score = calls[p].result[3].total_score
    /\ calls[p].result[3].position = 3

\* C32: store entities are only ever changed in their score: no step of the
\* service removes a committed row or changes its id, name or image, and a
\* committed score changes only at the COMMIT of an updateScore call for that
\* row's id.
C32_OnlyScoresChange ==
  [][\A r \in users :
       \E q \in users' :
         /\ q.user_id = r.user_id
         /\ q.user_name = r.user_name
         /\ q.image_url = r.image_url
         /\ q.total_score # r.total_score
              => \E p \in Procs :
                   /\ At(p, "updateScore", "commit")
                   /\ calls'[p].pc = "done"
                   /\ calls[p].user_id = r.user_id
                   /\ q.total_score = calls[p].score]_vars

\* updateScore has committed a new score for one of several committed rows,
\* and the rows of the other ids are those it started with
C32_Witness ==
  \E p \in Procs :
    /\ calls[p].op = "updateScore" /\ calls[p].pc = "done"
    /\ calls[p].outcome = "ok"
    /\ \E r \in calls[p].pre.users :
         r.user_id = calls[p].user_id /\ r.total_score # calls[p].score
    /\ \E r \in users :
         r.user_id = calls[p].user_id /\ r.total_score = calls[p].score
    /\ \E r \in calls[p].pre.users : r.user_id # calls[p].user_id /\ r \in users

\* C33: every transaction createUser or updateScore begins is closed by a
\* COMMIT or a ROLLBACK before its connection is released, so no connection
\* is back in the pool with a transaction open, and the INSERT of createUser
\* runs on the connection that ran BEGIN: it touches no other connection and
\* commits nothing by itself.
C33_TransactionsClosedOnOneConnection ==
  /\ [](\A i \in 1..Len(idle) : conns[idle[i]].txn = "none")
  /\ [][\A p \in Procs :
          (At(p, "createUser", "insert") /\ calls'[p].pc # "insert")
          => /\ users' = users
             /\ created' = created
             /\ idle' = idle]_vars

\* C34: when getUserAndSurroundings answers from the cache while createUser
\* and updateScore calls run beside it, above and below never contain the id
\* asked for, no id appears twice across above and below, and every position
\* in above is smaller, every position in below larger, than user.position.
C34_ContextExcludesUser ==
  \A p \in Procs :
    (ContextRan(p) /\ calls[p].rank # Null /\ calls[p].outcome = "ok")
    => LET above == calls[p].above
           below == calls[p].below
           both == above \o below
       IN /\ \A i \in 1..Len(both) : both[i].user_id # calls[p].user_id
          /\ \A i, j \in 1..Len(both) :
               both[i].user_id = both[j].user_id => i = j
          /\ \A i \in 1..Len(above) : above[i].position < calls[p].user.position
          /\ \A i \in 1..Len(below) : below[i].position > calls[p].user.position

\* C35: when one syncCacheFromDB runs interleaved with one updateScore(id, s)
\* that meets no failure, then once both have completed the score the Rank
\* Index holds for id, if it holds id at all, is the score committed in the
\* store for id.
C35_ResyncBesideUpdateAgrees ==
  \A p, q \in Procs :
    (/\ Quiescent
     /\ budget = MaxCalls - 2
     /\ fails = 0 /\ outages = 0
     /\ calls[p].op = "updateScore" /\ calls[p].outcome = "ok"
     /\ calls[q].op = "syncCacheFromDB" /\ calls[q].outcome = "ok")
    => \A r \in users :
         r.user_id = calls[p].user_id
         => zScore(zset, toString(r.user_id)) \in {Null, r.total_score}

\* C36: in every state in which no call is in progress, also after a failed
\* cache command, a failed COMMIT or a successful createUser, every id in the
\* Rank Index or in the Metadata Table is the id of an entity committed in the
\* store.
C36_CachedIdsAreCommitted ==
  Quiescent
  => /\ \A e \in zset : \E r \in users : toString(r.user_id) = e.value
     /\ \A f \in hash : \E r \in users : toString(r.user_id) = f.field

\* C37: when the Rank Index holds exactly the first min(K, N) store entities
\* under (score descending, id ascending), with their store scores, then
\* getUserAndSurroundings(id) for a cached id returns from the cache the
\* user.position the store query would return, also among equal scores.
C37_CachePositionIsStorePosition ==
  \A p \in Procs :
    (/\ ContextRan(p) /\ calls[p].outcome = "ok"
     /\ calls[p].rank # Null
     /\ Pairs(calls[p].pre.zset)
          = FirstK(calls[p].pre.store, MAX_CACHE_SIZE))
    => \A r \in calls[p].pre.store :
         r.user_id = calls[p].user_id
         => calls[p].user.position = StorePosition(calls[p].pre.store, r)

====
